---- MODULE Spec2Model ----
(***************************************************************************)
(* KPCA_Recon_Error (recon_error_kpca.py): anomaly detection by the        *)
(* reconstruction error of KernelPCA.                                      *)
(*                                                                         *)
(* The object is built from a dataset, then predict() runs the pipeline    *)
(*   get_ev_ratio -> reconstruct_matrix -> get_anomaly_score               *)
(*   -> get_anomaly_indices -> predict.                                    *)
(*                                                                         *)
(* Numbers.  Matrices hold integers; the datasets are drawn from those     *)
(* whose standardization is exact in integers.  Ratios and scores are      *)
(* exact rationals [num, den] with den > 0.  Rows and ranks are numbered   *)
(* from 1 (numpy numbers them from 0).                                     *)
(*                                                                         *)
(* KernelPCA is a library.  For a fixed kernel, gamma and random_state its *)
(* fit is a function of (matrix, n_components) that the source does not    *)
(* determine: the first fit of each rank chooses a result and later fits   *)
(* of the same rank return the same result (lambdas_, fitted).  The same   *)
(* holds of the order np.argsort gives to equal keys (argsorted).          *)
(***************************************************************************)
EXTENDS Integers, Sequences, FiniteSets

(* ------------------------------ bounds ------------------------------- *)
\* rows, columns, entries of a dataset; calls of predict() on one object
MaxN == 4
MaxD == 3
MaxCells == 6
MaxCalls == 2

\* the values drawn for the inputs and for what the library returns
RawVals == {0, 1}
Deviations == {0, 2}
Eigenvalues == {1, 2}
Verbosities == {0, 1, 2}
\* -1/4, 0, 1/2, 3/4
Contaminations ==
  { [num |-> -1, den |-> 4], [num |-> 0, den |-> 1], [num |-> 1, den |-> 2],
    [num |-> 3, den |-> 4] }

Shapes == { s \in (2..MaxN) \X (1..MaxD) : s[1] * s[2] <= MaxCells }

(* --------------------------- numeric helpers -------------------------- *)
RECURSIVE SumSeq(_)
SumSeq(s) == IF s = << >> THEN 0 ELSE s[1] + SumSeq(Tail(s))

ISqrt(x) == CHOOSE r \in 0..x : r * r <= x /\ x < (r + 1) * (r + 1)

IsSquare(x) == ISqrt(x) * ISqrt(x) = x

Rat(a, b) == [num |-> a, den |-> b]
RLess(a, b) == a.num * b.den < b.num * a.den
REq(a, b) == a.num * b.den = b.num * a.den
RAdd(a, b) == Rat(a.num * b.den + b.num * a.den, a.den * b.den)
RNeg(a) == Rat(-a.num, a.den)

Rows(M) == Len(M)
Cols(M) == Len(M[1])
Column(M, j) == [i \in 1..Rows(M) |-> M[i][j]]

(* --------------------------- StandardScaler --------------------------- *)
\* n^2 times the population variance of a column: n*sum(x^2) - sum(x)^2
ScaledVar(col) ==
  Len(col) * SumSeq([i \in 1..Len(col) |-> col[i] * col[i]])
    - SumSeq(col) * SumSeq(col)

ZeroVariance(col) == ScaledVar(col) = 0

\* n times the scale the scaler divides by: a zero scale is replaced by 1
HandleZerosInScale(col) ==
  IF ScaledVar(col) = 0 THEN Len(col) ELSE ISqrt(ScaledVar(col))

\* n times (x - mean)
Center(col, i) == Len(col) * col[i] - SumSeq(col)

\* (x - mean) / scale is an integer for every entry of the column
ExactColumn(col) ==
  /\ IsSquare(ScaledVar(col))
  /\ \A i \in 1..Len(col) : Center(col, i) % HandleZerosInScale(col) = 0

\* mutant: the dataset is stored as given
StandardScalerSkipped(X) == X

\* StandardScaler().fit_transform(X): every column centred and scaled
StandardScaler(X) ==
  [i \in 1..Rows(X) |->
     [j \in 1..Cols(X) |->
        Center(Column(X, j), i) \div HandleZerosInScale(Column(X, j))]]

\* the datasets of shape n x d: every column is constant or a step, and
\* standardizes exactly
ColumnShapes(n) ==
  { col \in { [i \in 1..n |-> 1], [i \in 1..n |-> IF 2 * i <= n THEN 0 ELSE 1] } :
      /\ \A i \in 1..n : col[i] \in RawVals
      /\ ExactColumn(col) }

Datasets(n, d) ==
  { X \in [1..n -> [1..d -> RawVals]] :
      \A j \in 1..d : Column(X, j) \in ColumnShapes(n) }

(* ------------------------------ KernelPCA ----------------------------- *)
\* the eigenvalue sequences a full-rank fit can return for n samples: one
\* eigenvalue per kept component, positive, descending, at most n of them
\* (the Gram matrix is n x n and the fit drops eigenvalues that are not > 0)
Spectra(n) ==
  UNION { { s \in [1..m -> Eigenvalues] : \A k \in 1..(m - 1) : s[k] >= s[k + 1] }
          : m \in 1..n }

\* the reconstructions inverse_transform(fit_transform(M)) can return: M
\* itself, or M off by a deviation in the first feature of one sample
Deviate(M, r, a) ==
  [i \in 1..Rows(M) |->
     [j \in 1..Cols(M) |-> IF i = r /\ j = 1 THEN M[i][j] - a ELSE M[i][j]]]

Reconstructions(M) ==
  { Deviate(M, r, a) : r \in 1..Rows(M), a \in Deviations }

(* ----------------------------- get_ev_ratio --------------------------- *)
\* mutant: the eigenvalues themselves, not their running sum
cumsumSkipped(s) == s

\* np.cumsum
cumsum(s) == [k \in 1..Len(s) |-> SumSeq(SubSeq(s, 1, k))]

\* np.cumsum(lambdas_) / np.sum(lambdas_)
get_ev_ratio(lam) == [k \in 1..Len(lam) |-> Rat(cumsum(lam)[k], SumSeq(lam))]

(* -------------------------- reconstruct_matrix ------------------------ *)
\* mutant: the rounds counted from 0
ProgressDueFromZero(i, m) == (i - 1) % m = 0

\* i % int(verbose) == 0
ProgressDue(i, m) == i % m = 0

\* mutant: np.any in the place of np.all
AnyEqual(A, B) ==
  \E i \in 1..Rows(A) : \E j \in 1..Cols(A) : A[i][j] = B[i][j]

\* np.all(A == B)
AllEqual(A, B) ==
  \A i \in 1..Rows(A) : \A j \in 1..Cols(A) : A[i][j] = B[i][j]

\* what the verbose loop prints after round i of cols_num
Printed(i, m, cols_num) ==
  (IF ProgressDue(i, m) THEN << [msg |-> "progress", n |-> i] >> ELSE << >>)
    \o (IF i = cols_num THEN << [msg |-> "total", n |-> cols_num] >> ELSE << >>)

(* --------------------------- get_anomaly_score ------------------------ *)
\* np.sqrt(np.square(vector).sum())
compute_vector_length(vector) ==
  ISqrt(SumSeq([j \in 1..Len(vector) |-> vector[j] * vector[j]]))

\* the score one reconstruction matrix gives every sample
compute_sub_score(M, recon_matrix, ev) ==
  [i \in 1..Rows(M) |->
     Rat(compute_vector_length([j \in 1..Cols(M) |-> M[i][j] - recon_matrix[i][j]])
           * ev.num, ev.den)]

Min(a, b) == IF a <= b THEN a ELSE b
Max(a, b) == IF a >= b THEN a ELSE b

\* list(map(compute_sub_score, reconstruct_matrices, ev_ratio)): map stops
\* at the end of the shorter of its two arguments
MapSubScores(M, recons, ratios) ==
  [k \in 1..Min(Len(recons), Len(ratios)) |->
     compute_sub_score(M, recons[k], ratios[k])]

RECURSIVE RSum(_)
RSum(s) == IF Len(s) = 1 THEN s[1] ELSE RAdd(s[1], RSum(Tail(s)))

\* np.sum(anomaly_scores, axis=0)
SumAxis0(scores, n) ==
  [i \in 1..n |-> RSum([k \in 1..Len(scores) |-> scores[k][i]])]

(* -------------------------- get_anomaly_indices ----------------------- *)
IndexOrders(n) ==
  { p \in [1..n -> 1..n] : \A a, b \in 1..n : p[a] = p[b] => a = b }

\* the results np.argsort(keys) can give: the indices in an order of
\* non-decreasing keys; the default sort is not stable, so the order of the
\* indices of equal keys is the build's
Argsorts(keys) ==
  { p \in IndexOrders(Len(keys)) :
      \A q \in 1..(Len(keys) - 1) : ~RLess(keys[p[q + 1]], keys[p[q]]) }

\* mutant: int(n * c), without np.ceil
TruncTimes(n, c) ==
  IF n * c.num >= 0 THEN (n * c.num) \div c.den ELSE -((-(n * c.num)) \div c.den)

\* int(np.ceil(n * c))
CeilTimes(n, c) == -((-(n * c.num)) \div c.den)

\* seq[:num]: a negative num counts from the end
SliceTo(seq, num) ==
  IF num >= 0 THEN SubSeq(seq, 1, Min(num, Len(seq)))
  ELSE SubSeq(seq, 1, Max(Len(seq) + num, 0))

(* -------------------------------- predict ----------------------------- *)
Range(s) == { s[k] : k \in 1..Len(s) }

\* np.isin(range(n), anomaly_indices).astype(int)
IsIn(n, indices) == [i \in 1..n |-> IF i \in Range(indices) THEN 1 ELSE 0]

(* ------------------------------- the state ---------------------------- *)
VARIABLES
  pc,              \* where the program is: "new", "idle", or inside predict()
  X,               \* the dataset given to __init__
  matrix,          \* self.matrix
  contamination,   \* self.contamination
  verbose,         \* self.verbose
  lambdas_,        \* KernelPCA(n_components=None).lambdas_, once fitted
  fitted,          \* fitted[k]: the reconstruction of rank k, once fitted
  argsorted,       \* the order np.argsort gives the scores, once sorted
  ev_ratio,        \* get_anomaly_score: ev_ratio
  recon_matrices,  \* reconstruct_matrix: recon_matrices
  printed,         \* what reconstruct_matrix has printed
  pair,            \* reconstruct_matrix: i, j of the sanity check
  anomaly_scores,  \* get_anomaly_score: anomaly_scores
  anomaly_score,   \* what get_anomaly_score returned
  anomaly_indices, \* what get_anomaly_indices returned
  pred_result,     \* predict: pred_result
  error,           \* the exception that ended the call, or "none"
  results          \* the outcome of every finished call of predict()

object == << X, matrix, contamination, verbose >>
library == << lambdas_, fitted, argsorted >>
locals == << ev_ratio, recon_matrices, printed, pair, anomaly_scores,
             anomaly_score, anomaly_indices, pred_result, error >>
vars == << pc, object, library, locals, results >>

n_samples == Rows(matrix)
cols_num == Cols(matrix)

NoLocals ==
  /\ ev_ratio = << >>
  /\ recon_matrices = << >>
  /\ printed = << >>
  /\ pair = << >>
  /\ anomaly_scores = << >>
  /\ anomaly_score = << >>
  /\ anomaly_indices = << >>
  /\ pred_result = << >>
  /\ error = "none"

\* a call starts with no locals
ClearLocals ==
  /\ ev_ratio' = << >>
  /\ recon_matrices' = << >>
  /\ printed' = << >>
  /\ pair' = << >>
  /\ anomaly_scores' = << >>
  /\ anomaly_score' = << >>
  /\ anomaly_indices' = << >>
  /\ pred_result' = << >>
  /\ error' = "none"

Init ==
  /\ pc = "new"
  /\ X = << >>
  /\ matrix = << >>
  /\ contamination = Rat(0, 1)
  /\ verbose = 0
  /\ lambdas_ = << >>
  /\ fitted = << >>
  /\ argsorted = << >>
  /\ NoLocals
  /\ results = << >>

\* __init__(matrix, contamination, verbose)
Construct ==
  /\ pc = "new"
  /\ \E s \in Shapes : \E data \in Datasets(s[1], s[2]) :
       /\ X' = data
       /\ matrix' = StandardScaler(data)
       /\ fitted' = [k \in 1..s[2] |-> << >>]
  /\ contamination' \in Contaminations
  /\ verbose' \in Verbosities
  /\ pc' = "idle"
  /\ UNCHANGED << lambdas_, argsorted, locals, results >>

\* the exception leaves predict()
Raise(e) ==
  /\ error' = e
  /\ results' = Append(results, [outcome |-> e, labels |-> << >>])
  /\ pc' = "idle"

\* predict() is called
CallPredict ==
  /\ pc = "idle"
  /\ Len(results) < MaxCalls
  /\ ClearLocals
  /\ pc' = "get_ev_ratio"
  /\ UNCHANGED << object, library, results >>

\* get_ev_ratio()
GetEvRatio ==
  /\ pc = "get_ev_ratio"
  /\ IF lambdas_ = << >> THEN lambdas_' \in Spectra(n_samples)
                         ELSE lambdas_' = lambdas_
  /\ ev_ratio' = get_ev_ratio(lambdas_')
  /\ pc' = "reconstruct"
  /\ UNCHANGED << object, fitted, argsorted, recon_matrices, printed, pair,
                  anomaly_scores, anomaly_score, anomaly_indices, pred_result,
                  error, results >>

\* reconstruct(recon_pc_num): the fit of rank recon_pc_num
Reconstruct(recon_pc_num) ==
  IF fitted[recon_pc_num] = << >>
    THEN \E R \in Reconstructions(matrix) :
           fitted' = [fitted EXCEPT ![recon_pc_num] = R]
    ELSE fitted' = fitted

\* one round of the loop of reconstruct_matrix, verbose off
ReconstructQuiet ==
  /\ pc = "reconstruct"
  /\ verbose = 0
  /\ LET i == Len(recon_matrices) + 1 IN
       /\ Reconstruct(i)
       /\ recon_matrices' = Append(recon_matrices, fitted'[i])
       /\ pc' = IF i = cols_num THEN "verify" ELSE "reconstruct"
  /\ UNCHANGED << object, lambdas_, argsorted, ev_ratio, printed, pair,
                  anomaly_scores, anomaly_score, anomaly_indices, pred_result,
                  error, results >>

\* one round of the loop of reconstruct_matrix, verbose on
ReconstructVerbose ==
  /\ pc = "reconstruct"
  /\ verbose # 0
  /\ LET i == Len(recon_matrices) + 1 IN
       /\ Reconstruct(i)
       /\ recon_matrices' = Append(recon_matrices, fitted'[i])
       /\ printed' = printed \o Printed(i, verbose, cols_num)
       /\ pc' = IF i = cols_num THEN "verify" ELSE "reconstruct"
  /\ UNCHANGED << object, lambdas_, argsorted, ev_ratio, pair,
                  anomaly_scores, anomaly_score, anomaly_indices, pred_result,
                  error, results >>

\* np.random.choice(range(cols_num), size=2, replace=False) and the assert
VerifyDifferent ==
  /\ pc = "verify"
  /\ IF cols_num < 2
       THEN /\ Raise("ValueError")
            /\ UNCHANGED pair
       ELSE \E i, j \in 1..cols_num :
              /\ i # j
              /\ pair' = << i, j >>
              /\ IF AllEqual(recon_matrices[i], recon_matrices[j])
                   THEN Raise("AssertionError")
                   ELSE /\ pc' = "get_anomaly_score"
                        /\ UNCHANGED << error, results >>
  /\ UNCHANGED << object, library, ev_ratio, recon_matrices, printed,
                  anomaly_scores, anomaly_score, anomaly_indices, pred_result >>

\* get_anomaly_score(), after its two calls: reconstruct_matrix has
\* returned and its i, j are gone
GetAnomalyScore ==
  /\ pc = "get_anomaly_score"
  /\ pair' = << >>
  /\ anomaly_scores' = MapSubScores(matrix, recon_matrices, ev_ratio)
  /\ anomaly_score' = SumAxis0(anomaly_scores', n_samples)
  /\ pc' = "get_anomaly_indices"
  /\ UNCHANGED << object, library, ev_ratio, recon_matrices, printed,
                  anomaly_indices, pred_result, error, results >>

\* get_anomaly_indices(), after get_anomaly_score()
GetAnomalyIndices ==
  /\ pc = "get_anomaly_indices"
  /\ IF argsorted = << >>
       THEN argsorted' \in Argsorts([i \in 1..n_samples |-> RNeg(anomaly_score[i])])
       ELSE argsorted' = argsorted
  /\ LET indices_desc == argsorted'
         anomaly_num == CeilTimes(n_samples, contamination)
     IN  anomaly_indices' = SliceTo(indices_desc, anomaly_num)
  /\ pc' = "predict"
  /\ UNCHANGED << object, lambdas_, fitted, ev_ratio, recon_matrices, printed,
                  pair, anomaly_scores, anomaly_score, pred_result, error,
                  results >>

\* predict(), after get_anomaly_indices()
Predict ==
  /\ pc = "predict"
  /\ pred_result' = IsIn(n_samples, anomaly_indices)
  /\ results' = Append(results, [outcome |-> "returned", labels |-> pred_result'])
  /\ pc' = "idle"
  /\ UNCHANGED << object, library, ev_ratio, recon_matrices, printed, pair,
                  anomaly_scores, anomaly_score, anomaly_indices, error >>

Next ==
  \/ Construct
  \/ CallPredict
  \/ GetEvRatio
  \/ ReconstructQuiet
  \/ ReconstructVerbose
  \/ VerifyDifferent
  \/ GetAnomalyScore
  \/ GetAnomalyIndices
  \/ Predict

Spec == Init /\ [][Next]_vars

(* ------------------------------ the claims ---------------------------- *)
RECURSIVE PrefixSum(_, _)
PrefixSum(s, k) == IF k = 0 THEN 0 ELSE s[k] + PrefixSum(s, k - 1)

InRange(c) == 0 <= c.num /\ 2 * c.num <= c.den

\* reconstruct_matrix has run its sanity check in this call
Verified == pc = "get_anomaly_score" \/ (pc = "idle" /\ error # "none")

AllIdentical(ms) == \A a, b \in 1..Len(ms) : ms[a] = ms[b]
PairwiseDistinct(ms) == \A a, b \in 1..Len(ms) : a # b => ms[a] # ms[b]

\* the Euclidean norm of (standardized row i - row i of the rank-k reconstruction)
Residual(i, k) ==
  ISqrt(PrefixSum([j \in 1..cols_num |->
                     (matrix[i][j] - recon_matrices[k][i][j])
                       * (matrix[i][j] - recon_matrices[k][i][j])], cols_num))

RECURSIVE WeightedSum(_, _)
WeightedSum(i, k) ==
  IF k = 0 THEN Rat(0, 1)
  ELSE RAdd(WeightedSum(i, k - 1),
            Rat(ev_ratio[k].num * Residual(i, k), ev_ratio[k].den))

\* C1: once get_anomaly_score has returned, exactly d = cols_num weighted
\* terms were summed, and score[i] is the sum over all ranks k = 1..d of
\* ratio[k] times the norm of the residual of row i at rank k, whatever the
\* length of the eigenvalue sequence.
C1_AllRanksSummed ==
  pc = "get_anomaly_indices" =>
    /\ Len(anomaly_scores) = cols_num
    /\ Len(ev_ratio) >= cols_num
    /\ \A i \in 1..n_samples : REq(anomaly_score[i], WeightedSum(i, cols_num))

\* predict has returned in this call
Returned == pc = "idle" /\ pred_result # << >>

StableDescending(score) ==
  CHOOSE p \in IndexOrders(Len(score)) :
    \A q \in 1..(Len(score) - 1) :
      \/ RLess(score[p[q + 1]], score[p[q]])
      \/ (REq(score[p[q + 1]], score[p[q]]) /\ p[q] < p[q + 1])

\* C3: get_anomaly_indices returns the first ceil(n*c) row indices of the
\* order by score descending with ties broken by row index ascending.
C3_TiesByIndex ==
  (pc = "predict" /\ InRange(contamination)) =>
    \A q \in 1..Len(anomaly_indices) :
      anomaly_indices[q] = StableDescending(anomaly_score)[q]

\* C4: two calls of predict on the same object have the same outcome: the
\* same labels, or the same error.
C4_SameOutcome ==
  (InRange(contamination) /\ Len(results) >= 2) => results[1] = results[2]

\* C5: with contamination outside [0, 0.5], get_anomaly_indices never
\* returns and no call of predict returns normally.
C5_OutOfRangeFails ==
  (pc # "new" /\ ~InRange(contamination)) =>
    /\ pc # "predict"
    /\ \A q \in 1..Len(results) : results[q].outcome # "returned"

HasZeroVarianceColumn(data) ==
  \E j \in 1..Cols(data) : ZeroVariance(Column(data, j))

C8_CumulativeRatio ==
  ev_ratio # << >> =>
    /\ Len(ev_ratio) = Len(lambdas_)
    /\ \A k \in 1..Len(ev_ratio) :
         /\ ev_ratio[k].den > 0
         /\ REq(ev_ratio[k], Rat(PrefixSum(lambdas_, k), PrefixSum(lambdas_, Len(lambdas_))))
         /\ RLess(Rat(0, 1), ev_ratio[k])
         /\ ~RLess(Rat(1, 1), ev_ratio[k])
         /\ k > 1 => ~RLess(ev_ratio[k], ev_ratio[k - 1])
    /\ REq(ev_ratio[Len(ev_ratio)], Rat(1, 1))

\* C8 witness: d unequal eigenvalues for d >= 2 columns
C8_Witness ==
  /\ ev_ratio # << >>
  /\ cols_num >= 2
  /\ Len(lambdas_) = cols_num
  /\ lambdas_[1] > lambdas_[2]
  /\ RLess(ev_ratio[1], ev_ratio[2])

\* C9: when the rank-k reconstructions are pairwise distinct (d >= 1),
\* reconstruct_matrix ends without error and returns d matrices, the k-th
\* the rank-k reconstruction, each of the shape of the standardized matrix.
C9_DistinctNeverFails ==
  (Verified /\ PairwiseDistinct(recon_matrices)) =>
    /\ error = "none"
    /\ Len(recon_matrices) = cols_num
    /\ \A k \in 1..cols_num :
         /\ recon_matrices[k] = fitted[k]
         /\ Rows(recon_matrices[k]) = n_samples
         /\ Cols(recon_matrices[k]) = cols_num

IsProgress(m) == m.msg = "progress"
IsTotal(m) == m.msg = "total"

\* C10: for every verbose m the loop builds the reconstructions of ranks
\* 1, 2, ... in order, as with verbose off; with m = 0 nothing is printed;
\* with m >= 1, after i rounds the progress messages are those of the
\* rounds q <= i with q mod m = 0, in order, and the total message is
\* printed once, last, after round d.
C10_VerboseSameSeries ==
  (pc \in {"reconstruct", "verify"} \/ Verified) =>
    LET i == Len(recon_matrices) IN
      /\ i <= cols_num
      /\ pc = "reconstruct" => i < cols_num
      /\ pc # "reconstruct" => i = cols_num
      /\ \A k \in 1..i : recon_matrices[k] = fitted[k]
      /\ verbose = 0 => printed = << >>
      /\ verbose >= 1 =>
           /\ SelectSeq(printed, IsProgress)
                = [q \in 1..(i \div verbose) |-> [msg |-> "progress", n |-> q * verbose]]
           /\ SelectSeq(printed, IsTotal)
                = IF i = cols_num THEN << [msg |-> "total", n |-> cols_num] >> ELSE << >>
           /\ i = cols_num => IsTotal(printed[Len(printed)])

\* C10 witness: verbose = 2 on three columns: one progress message (after
\* round 2) and the total
C10_Witness ==
  /\ pc = "verify"
  /\ verbose = 2
  /\ cols_num = 3
  /\ printed = << [msg |-> "progress", n |-> 2], [msg |-> "total", n |-> 3] >>

====
